---- MODULE Spec2Model ----
(***************************************************************************)
(* Streaming acquisition core of the Spectrum Instrumentation fast ADC     *)
(* module (qudi/hardware/Fast_ADC/spectrum_instrumentation_ver5.py):       *)
(* ring-buffer transfer (Data_transfer), status and release commands       *)
(* (Data_process_command), the scheduler loop (Data_process_commander,     *)
(* Data_process_loop) and the controller (SpectrumInstrumentation).        *)
(*                                                                         *)
(* The loop object, Card_process.dp and Data_fetch_ungated.dpcmd are three *)
(* Data_process_command views of the same card; they are modelled as one   *)
(* set of status fields.  The loop modelled is the loop_on one (lines      *)
(* 1056-1068).  The card itself is the external collaborator of spec 4.3.   *)
(***************************************************************************)
EXTENDS Integers, Sequences, FiniteSets, TLC

\* ---------------------------------------------------------------- geometry
\* reps_per_buf: repetitions the ring buffer holds
RepsPerBuf == 2
\* seq_size_S: samples per repetition
SeqSizeS == 2
\* data_bytes_B: bytes per sample
DataBytesB == 2
\* triggers the card accepts in one model run
MaxTrig == 5
\* loop threads that can exist at the same time
MaxThreads == 2
\* calls an unconstrained caller makes
MaxCalls == 2
\* triggers the card accepts in a run with an unconstrained caller or with a
\* failing card
MaxTrigShort == 3

seq_size_B == SeqSizeS * DataBytesB
buf_size_B == RepsPerBuf * seq_size_B
BufLenS == RepsPerBuf * SeqSizeS

SampleValues == {0, 1}
Positions == {r * seq_size_B : r \in 0 .. (RepsPerBuf - 1)}
\* a status field init_dp_params has set to '-----'
NoValue == 0 - 1

\* Data_fetch_gated.create_data_trsnsfer: a repetition has two timestamps,
\* the rising and the falling edge of its gate
ts_seq_size == 2
TsLenS == RepsPerBuf * ts_seq_size

\* ------------------------------------------------------------ Data_transfer
\* A numpy array over the ring buffer: np.ctypeslib.as_array gives a view of
\* the buffer memory (view = TRUE: pos_B, len_S), np.append gives a copy.
View(pos_B, len_S) == [view |-> TRUE, pos_B |-> pos_B, len_S |-> len_S, data |-> << >>]
Copy(data) == [view |-> FALSE, pos_B |-> 0, len_S |-> Len(data), data |-> data]

\* the sample at a byte offset; outside the buffer the memory is not ours
Garbage == 0 - 1
SampleAt(b, off_B) ==
    LET i == (off_B \div DataBytesB) + 1
    IN  IF i \in DOMAIN b THEN b[i] ELSE Garbage

\* the values an array holds, given the buffer memory b
Deref(b, a) ==
    IF a.view
    THEN [i \in 1 .. a.len_S |-> SampleAt(b, a.pos_B + (i - 1) * DataBytesB)]
    ELSE a.data

_fetch_from_buf(user_pos_B, sample_S) == View(user_pos_B, sample_S)

_fetch_data(user_pos_B, curr_avail_reps) ==
    _fetch_from_buf(user_pos_B, curr_avail_reps * SeqSizeS)

\* np.append(tail, head): a new array holding tail then head
np_append(b, tail, head) == Copy(Deref(b, tail) \o Deref(b, head))

fetch_tail_reps_off_by_one(user_pos_B) ==
    RepsPerBuf - (user_pos_B \div seq_size_B) - 1

reps_tail_of(user_pos_B) ==
    LET start_rep == (user_pos_B \div seq_size_B) + 1
    IN  RepsPerBuf - (start_rep - 1)

\* a wraparound fetch that reads its head behind the end of the buffer
_fetch_data_buf_end_reads_past_end(user_pos_B, curr_avail_reps) ==
    LET reps_tail == reps_tail_of(user_pos_B)
        reps_head == curr_avail_reps - reps_tail
    IN  << _fetch_data(user_pos_B, reps_tail), _fetch_data(buf_size_B, reps_head) >>

\* the reads of the wraparound fetch: <<tail, head>>
_fetch_data_buf_end_reads(user_pos_B, curr_avail_reps) ==
    LET reps_tail == reps_tail_of(user_pos_B)
        reps_head == curr_avail_reps - reps_tail
    IN  << _fetch_data(user_pos_B, reps_tail), _fetch_data(0, reps_head) >>

_fetch_data_buf_end(b, user_pos_B, curr_avail_reps) ==
    LET rd == _fetch_data_buf_end_reads(user_pos_B, curr_avail_reps)
    IN  np_append(b, rd[1], rd[2])

rep_end_of(curr_avail_reps, user_pos_B) ==
    (user_pos_B \div seq_size_B) + curr_avail_reps

\* get_new_data: the outcome of the call.  kind "data": np_data and the buffer
\* reads made; kind "UnboundLocalError": the else branch prints and the
\* return of the unassigned np_data raises.
get_new_data(b, curr_avail_reps, user_pos_B) ==
    LET rep_end == rep_end_of(curr_avail_reps, user_pos_B)
    IN  IF 0 < rep_end /\ rep_end <= RepsPerBuf
        THEN [kind |-> "data",
              np_data |-> _fetch_data(user_pos_B, curr_avail_reps),
              reads |-> << _fetch_data(user_pos_B, curr_avail_reps) >>]
        ELSE IF RepsPerBuf < rep_end /\ rep_end < 2 * RepsPerBuf
        THEN [kind |-> "data",
              np_data |-> _fetch_data_buf_end(b, user_pos_B, curr_avail_reps),
              reads |-> _fetch_data_buf_end_reads(user_pos_B, curr_avail_reps)]
        ELSE [kind |-> "UnboundLocalError", np_data |-> Copy(<< >>), reads |-> << >>]

\* get_new_data has not been called yet
Pending == [kind |-> "pending", np_data |-> Copy(<< >>), reads |-> << >>]

\* ------------------------------------------------------------------ AvgData
\* exact fractions <<p, q>>, q > 0, in lowest terms
RECURSIVE GCD(_, _)
GCD(a, b) == IF b = 0 THEN a ELSE GCD(b, a % b)
Abs(a) == IF a < 0 THEN 0 - a ELSE a
Frac(p, q) ==
    LET g == GCD(Abs(p), q)
    IN  IF g = 0 THEN << 0, 1 >> ELSE << p \div g, q \div g >>

RECURSIVE SumOver(_, _, _)
\* sum of sample j over the reps r .. 1 of a flat array of reps
SumOver(data, j, r) ==
    IF r = 0 THEN 0 ELSE data[(r - 1) * SeqSizeS + j] + SumOver(data, j, r - 1)

\* a batch mean that takes the first repetition for the mean of all
avgdata_first_rep(data, rep) ==
    [num |-> rep,
     data |-> [j \in 1 .. SeqSizeS |-> Frac(IF rep = 0 THEN 0 ELSE data[j], 1)]]

\* a batch that counts as one repetition however many it holds
avgdata_one_rep(data, rep) ==
    [num |-> IF rep = 0 THEN 0 ELSE 1,
     data |-> [j \in 1 .. SeqSizeS |-> Frac(SumOver(data, j, rep), rep)]]

\* SeqDataMulti.avgdata: the batch's repetition count and per-sample mean
avgdata(data, rep) ==
    [num |-> rep, data |-> [j \in 1 .. SeqSizeS |-> Frac(SumOver(data, j, rep), rep)]]

\* AvgData(): no repetitions, no samples
AvgDataNew == [num |-> 0, data |-> << >>]

\* a seeding that counts the empty average as one repetition
update_seed_counts_prior(cur, new) ==
    IF cur.num = 0
    THEN [num |-> new.num + 1, data |-> new.data]
    ELSE [num |-> cur.num + new.num,
          data |-> [j \in 1 .. SeqSizeS |->
                      Frac(cur.data[j][1] * cur.num * new.data[j][2]
                             + new.data[j][1] * new.num * cur.data[j][2],
                           cur.data[j][2] * new.data[j][2] * (cur.num + new.num))]]

\* a combination that takes the plain mean of the two means
update_unweighted(cur, new) ==
    IF cur.num = 0
    THEN new
    ELSE [num |-> cur.num + new.num,
          data |-> [j \in 1 .. SeqSizeS |->
                      Frac(cur.data[j][1] * new.data[j][2]
                             + new.data[j][1] * cur.data[j][2],
                           cur.data[j][2] * new.data[j][2] * 2)]]

\* a combination that folds the new batch as one repetition
update_one_rep(cur, new) ==
    IF cur.num = 0
    THEN new
    ELSE [num |-> cur.num + new.num,
          data |-> [j \in 1 .. SeqSizeS |->
                      Frac(cur.data[j][1] * cur.num * new.data[j][2]
                             + new.data[j][1] * cur.data[j][2],
                           cur.data[j][2] * new.data[j][2] * (cur.num + 1))]]

\* AvgData.update: the weighted combination of spec 4.4
update(cur, new) ==
    IF cur.num = 0
    THEN new
    ELSE [num |-> cur.num + new.num,
          data |-> [j \in 1 .. SeqSizeS |->
                      Frac(cur.data[j][1] * cur.num * new.data[j][2]
                             + new.data[j][1] * new.num * cur.data[j][2],
                           cur.data[j][2] * new.data[j][2] * (cur.num + new.num))]]

\* an attribute of the loop object: never assigned, or holding v
AttrUnset == [set |-> FALSE, v |-> << >>]
Attr(v) == [set |-> TRUE, v |-> v]

\* what the controller's last call returned
\* (ref: the array the call holds is the object self.avg_data refers to)
NoReturn ==
    [op |-> "none", kind |-> "none", data |-> << >>, num |-> 0, now |-> << >>,
     ref |-> FALSE]

\* ---------------------------------------------------------------- variables
VARIABLES
    gnd_buf,      \* get_new_data called on its own: the buffer memory,
    gnd_reps,     \*   curr_avail_reps,
    gnd_pos_B,    \*   user_pos_B,
    gnd_out       \*   and the outcome (Pending before the call)

VARIABLES
    cmb_avg,      \* AvgData.update called on its own: the average so far,
    cmb_dc,       \*   the repetitions held by dc (flat, SeqSizeS samples each),
    cmb_next,     \*   the batch that is folded after it,
    cmb_out       \*   and the outcome (CmbPending before the call)

VARIABLES
    rps_len_B,    \* get_avail_user_reps on its own: the bytes the card reports,
    rps_size_B,   \*   the bytes of a segment,
    rps_out       \*   and the count returned (NoValue before the call)

VARIABLES
    ts_buf,       \* the gated fetch on its own: the timestamp ring buffer,
    ts_pos_S,     \*   the timestamp cursor, in timestamps,
    ts_reps,      \*   curr_avail_reps,
    ts_out        \*   and the outcome (TsPending before the call)

VARIABLES
    \* the card (external collaborator)
    hw_card_on,        \* card started
    hw_dma_on,         \* DMA started
    hw_trig,           \* trigger enabled on the card
    hw_trigcount,      \* SPC_TRIGGERCOUNTER
    hw_xfer,           \* repetitions transferred into the ring buffer so far
    hw_pos_B,          \* SPC_DATA_AVAIL_USER_POS
    hw_len_B,          \* SPC_DATA_AVAIL_USER_LEN
    buf                \* the ring buffer memory

VARIABLES
    \* SpectrumInstrumentation
    internal_status,   \* _internal_status
    cpc,               \* where the controller's caller is
    ret,               \* what its last call returned
    loc_data,          \* fetch_data_trace's local avg_data
    loc_trig           \* get_trig_counter's c_trig_counter in the controller's
                       \*   call (NoValue outside it)

VARIABLES
    \* Data_process_loop and its mixins
    loop_on, fetch_on,
    trigger_enabled, trigger_on, wait_trigger_on, data_process_on,
    trig_counter, avail_user_reps, processed_data_B,
    dc_data, dc_rep,   \* dc.data, dc.rep
    avg,               \* the AvgData the loop folds into
    avg_data, avg_num, \* what fetch_data_trace reads
    data_proc_th,      \* the thread start_data_process made last (0: none yet)
    th_pc,             \* each loop thread's position
    th_k,              \* its curr_avail_reps
    th_prev,           \* its prev_trig_counts
    loop_error         \* the exception that ended a loop thread

VARIABLES
    \* history
    g_fetched_B,       \* bytes get_new_data has returned in this run
    g_pending_B,       \* bytes each thread has fetched and not yet released
    g_stop_mid,        \* a stop or pause came between a fetch and its release
    calls              \* controller calls made, where the caller is unconstrained

VARIABLES
    \* the settings objects made by on_activate, and the card's registers
    ms,                \* Measurement_settings: binwidth, seq_size_S, reps_per_buf, ...
    cs,                \* Card_settings: clk_samplerate_Hz, acq_seg_size_S, buf_size_B
    cfg,               \* Configure_command: the copies it programs the card from
    hw_regs,           \* the card: SPC_SAMPLERATE, SPC_SEGMENTSIZE, the buffer defined
    cfg_out            \* what the last configure call was asked and returned

VARIABLES
    hw_fault,          \* the card answers driver calls with an error code
    g_err_reported     \* history: a driver call of this run has reported an error

VARIABLES
    g_pause_num        \* history: avg.num when pause_measure last returned in
                       \*   this run (NoValue: it has not)

gndvars == << gnd_buf, gnd_reps, gnd_pos_B, gnd_out >>
cmbvars == << cmb_avg, cmb_dc, cmb_next, cmb_out >>
cfgvars == << ms, cs, cfg, hw_regs, cfg_out >>
rpsvars == << rps_len_B, rps_size_B, rps_out >>
tsvars == << ts_buf, ts_pos_S, ts_reps, ts_out >>
purevars == << gndvars, cmbvars, cfgvars, rpsvars, tsvars >>
hwvars == << hw_card_on, hw_dma_on, hw_trig, hw_trigcount, hw_xfer, hw_pos_B, hw_len_B, buf >>
ctlvars == << internal_status, cpc, ret, loc_data, loc_trig >>
flagvars == << loop_on, fetch_on, trigger_enabled, trigger_on, wait_trigger_on, data_process_on >>
statvars == << trig_counter, avail_user_reps, processed_data_B >>
datavars == << dc_data, dc_rep, avg, avg_data, avg_num >>
thvars == << data_proc_th, th_pc, th_k, th_prev, loop_error >>
histvars == << g_fetched_B, g_pending_B, g_stop_mid >>
loopvars == << flagvars, statvars, datavars, thvars >>
faultvars == << hw_fault, g_err_reported >>
vars == << purevars, hwvars, ctlvars, loopvars, histvars, calls, faultvars, g_pause_num >>

Threads == 1 .. MaxThreads

\* sample rates are written as their timebase t: the rate is 250 MHz / t and
\* the bin width t / 250 MHz; the card's maximum rate is the timebase
MaxRateTimebase == 1

\* configure has not been called yet
CfgPending ==
    [kind |-> "pending", req_binwidth |-> 0, req_length |-> 0,
     binwidth |-> NoValue, length |-> NoValue]

\* the state of the object after __init__ and on_activate, before any call
InitMachine ==
    /\ hw_card_on = FALSE /\ hw_dma_on = FALSE /\ hw_trig = FALSE
    /\ hw_trigcount = 0 /\ hw_xfer = 0 /\ hw_pos_B = 0 /\ hw_len_B = 0
    /\ buf = [i \in 1 .. BufLenS |-> 0]
    /\ internal_status = "idle" /\ cpc = "ready" /\ ret = NoReturn /\ loc_data = << >>
    /\ loc_trig = NoValue
    /\ loop_on = FALSE /\ fetch_on = FALSE
    /\ trigger_enabled = FALSE /\ trigger_on = FALSE
    /\ wait_trigger_on = FALSE /\ data_process_on = FALSE
    /\ trig_counter = NoValue /\ avail_user_reps = 0 /\ processed_data_B = 0
    /\ dc_data = Copy(<< >>) /\ dc_rep = 0
    /\ avg = AvgDataNew /\ avg_data = AttrUnset /\ avg_num = 0
    /\ data_proc_th = 0
    /\ th_pc = [t \in Threads |-> "none"]
    /\ th_k = [t \in Threads |-> 0]
    /\ th_prev = [t \in Threads |-> 0]
    /\ loop_error = "none"
    /\ g_fetched_B = 0 /\ g_pending_B = [t \in Threads |-> 0]
    /\ g_stop_mid = FALSE
    /\ calls = 0
    /\ hw_fault = FALSE /\ g_err_reported = FALSE
    /\ g_pause_num = NoValue
    /\ ms = [binwidth |-> NoValue, actual_length |-> NoValue,
             seq_size_S |-> 0, reps_per_buf |-> 0]
    /\ cs = [clk_timebase |-> MaxRateTimebase, acq_seg_size_S |-> 0, buf_size_B |-> 0]
    /\ cfg = [clk_timebase |-> NoValue, acq_seg_size_S |-> 0, buf_size_B |-> 0]
    /\ hw_regs = [clk_timebase |-> NoValue, acq_seg_size_S |-> 0, buf_size_B |-> 0]
    /\ cfg_out = CfgPending

\* the gated fetch has not been called yet
TsPending == [kind |-> "pending", ts_r |-> << >>, ts_f |-> << >>]

RpsIdle == rps_len_B = 0 /\ rps_size_B = seq_size_B /\ rps_out = NoValue

TsIdle ==
    /\ ts_buf = [i \in 1 .. TsLenS |-> 0] /\ ts_pos_S = 0 /\ ts_reps = 0
    /\ ts_out = TsPending

GndIdle ==
    /\ gnd_buf = [i \in 1 .. BufLenS |-> 0] /\ gnd_pos_B = 0 /\ gnd_reps = 0
    /\ gnd_out = Pending

\* AvgData.update has not been called yet
CmbPending ==
    [kind |-> "pending", new_avg |-> AvgDataNew, avg |-> AvgDataNew,
     left |-> AvgDataNew, right |-> AvgDataNew,
     whole |-> AvgDataNew, split |-> AvgDataNew]

CmbIdle ==
    /\ cmb_avg = AvgDataNew /\ cmb_dc = << >> /\ cmb_next = AvgDataNew
    /\ cmb_out = CmbPending

\* -------------------------------------------- get_new_data on its own inputs
Buffers == [1 .. BufLenS -> SampleValues]

InitFetch ==
    /\ gnd_buf \in Buffers
    /\ gnd_pos_B \in Positions
    /\ gnd_reps \in 0 .. (2 * RepsPerBuf + 1)
    /\ gnd_out = Pending
    /\ CmbIdle
    /\ RpsIdle /\ TsIdle
    /\ InitMachine

CallGetNewData ==
    /\ gnd_out = Pending
    /\ gnd_out' = get_new_data(gnd_buf, gnd_reps, gnd_pos_B)
    /\ UNCHANGED << gnd_buf, gnd_reps, gnd_pos_B >>
    /\ UNCHANGED cmbvars
    /\ UNCHANGED cfgvars
    /\ UNCHANGED << rpsvars, tsvars >>
    /\ UNCHANGED << hwvars, ctlvars, loopvars, histvars, calls >>
    /\ UNCHANGED faultvars
    /\ UNCHANGED g_pause_num

NextFetch == CallGetNewData

SpecFetch == InitFetch /\ [][NextFetch]_vars

gnd_called == gnd_out # Pending
gnd_rep_end == rep_end_of(gnd_reps, gnd_pos_B)

\* k repetitions read at pos_B from two copies of the buffer laid end to end
DoubleRead(b, pos_B, k) ==
    SubSeq(b \o b, (pos_B \div DataBytesB) + 1, (pos_B \div DataBytesB) + k * SeqSizeS)

C2_ContiguousFetch ==
    (gnd_called /\ gnd_rep_end <= RepsPerBuf)
        => /\ gnd_out.kind = "data"
           /\ gnd_out.reads = << View(gnd_pos_B, gnd_reps * SeqSizeS) >>
           /\ gnd_out.np_data = View(gnd_pos_B, gnd_reps * SeqSizeS)

\* C3: when rep_end >= 2 * reps_per_buf, the outcome of get_new_data is a
\* BufferOverrunError and no samples.
C3_OverrunIsError ==
    (gnd_called /\ gnd_rep_end >= 2 * RepsPerBuf)
        => gnd_out.kind = "BufferOverrunError"

\* ------------------------------------------------------- check_card_error
\* the decorator of the driver calls: with _error_check False it does nothing,
\* with _error_check True it prints; either way the value of the call is
\* returned and nothing is raised
check_card_error(value, error) == value

\* the error code a driver call gets from the card
ErrCode == IF hw_fault THEN 1 ELSE 0

\* a decorated driver call is made: the card's answer is in self._error
driver_call ==
    /\ g_err_reported' = (g_err_reported \/ ErrCode # 0)
    /\ UNCHANGED hw_fault

\* ------------------------------------------------------------------ the card
\* the card starts to answer with errors
HwFault ==
    /\ hw_card_on /\ ~hw_fault
    /\ hw_fault' = TRUE
    /\ UNCHANGED g_err_reported
    /\ UNCHANGED << purevars, hwvars, ctlvars, loopvars, histvars, calls >>
    /\ UNCHANGED g_pause_num

\* a trigger arrives while the card runs with its trigger enabled
HwTrigger ==
    /\ hw_card_on /\ hw_trig
    /\ hw_trigcount < MaxTrig
    /\ hw_trigcount' = hw_trigcount + 1
    /\ UNCHANGED << hw_card_on, hw_dma_on, hw_trig, hw_xfer, hw_pos_B, hw_len_B, buf >>
    /\ UNCHANGED << purevars, ctlvars, loopvars, histvars >>
    /\ UNCHANGED calls
    /\ UNCHANGED faultvars
    /\ UNCHANGED g_pause_num

\* the signal recorded at the n-th trigger: the samples alternate from one
\* repetition to the next
RepValue(n) == n % 2

\* the buffer memory after the DMA has written one repetition of value v
\* behind the available data
BufWrite(b, v) ==
    LET at_B == (hw_pos_B + hw_len_B) % buf_size_B
        first == (at_B \div DataBytesB) + 1
    IN  [i \in 1 .. BufLenS |-> IF i >= first /\ i < first + SeqSizeS THEN v ELSE b[i]]

\* the DMA moves one recorded repetition into free ring-buffer space
HwTransfer ==
    /\ hw_card_on /\ hw_dma_on
    /\ hw_xfer < hw_trigcount
    /\ hw_len_B + seq_size_B <= buf_size_B
    /\ buf' = BufWrite(buf, RepValue(hw_xfer + 1))
    /\ hw_len_B' = hw_len_B + seq_size_B
    /\ hw_xfer' = hw_xfer + 1
    /\ UNCHANGED << hw_card_on, hw_dma_on, hw_trig, hw_trigcount, hw_pos_B >>
    /\ UNCHANGED << purevars, ctlvars, loopvars, histvars >>
    /\ UNCHANGED calls
    /\ UNCHANGED faultvars
    /\ UNCHANGED g_pause_num

\* SPC_DATA_AVAIL_CARD_LEN: n bytes are free again; the card refuses more
\* than it has handed out
HwReleasePos(n) == IF n <= hw_len_B THEN (hw_pos_B + n) % buf_size_B ELSE hw_pos_B
HwReleaseLen(n) == IF n <= hw_len_B THEN hw_len_B - n ELSE hw_len_B

\* ----------------------------------------------------- Data_process_command
\* a count that takes a started segment for a whole one
avail_reps_rounded_up(len_B, size_B) == (len_B + size_B - 1) \div size_B

\* int(np.floor(avail_user_len_B / seq_size_B))
avail_reps(len_B, size_B) == len_B \div size_B

get_avail_user_reps_of(len_B) == avail_reps(len_B, seq_size_B)

\* ------------------------------------------------------- the scheduler loop
ThDies(t, err) ==
    /\ th_pc' = [th_pc EXCEPT ![t] = "dead"]
    /\ th_k' = [th_k EXCEPT ![t] = 0]
    /\ th_prev' = [th_prev EXCEPT ![t] = 0]
    /\ loop_error' = err

\* while self.loop_on == True: if self.fetch_on == False: ...
\* (with fetch_on set the thread spins, printing)
start_data_process_loop(t) ==
    /\ th_pc[t] = "top"
    /\ IF loop_on
       THEN /\ fetch_on = FALSE
            /\ th_pc' = [th_pc EXCEPT ![t] = "poll"]
       ELSE th_pc' = [th_pc EXCEPT ![t] = "dead"]
    /\ UNCHANGED << data_proc_th, th_k, th_prev, loop_error >>
    /\ UNCHANGED << purevars, hwvars, ctlvars, flagvars, statvars, datavars, histvars >>
    /\ UNCHANGED calls
    /\ UNCHANGED faultvars
    /\ UNCHANGED g_pause_num

\* check_dp_status, called by the loop
check_dp_status(t) ==
    /\ th_pc[t] = "poll"
    /\ trig_counter' = check_card_error(hw_trigcount, ErrCode)
    /\ avail_user_reps' = get_avail_user_reps_of(check_card_error(hw_len_B, ErrCode))
    /\ th_pc' = [th_pc EXCEPT ![t] = "command"]
    /\ UNCHANGED << processed_data_B, data_proc_th, th_k, th_prev, loop_error >>
    /\ UNCHANGED << purevars, hwvars, ctlvars, flagvars, datavars, histvars >>
    /\ UNCHANGED calls
    /\ driver_call
    /\ UNCHANGED g_pause_num

\* the decision of command_process: <<trigger_on, wait_trigger_on, data_process_on>>
decide_never_off(unprocessed_reps) ==
    IF unprocessed_reps = 0 THEN << TRUE, TRUE, FALSE >> ELSE << TRUE, FALSE, TRUE >>

decide(unprocessed_reps) ==
    IF unprocessed_reps = 0
    THEN << TRUE, TRUE, FALSE >>
    ELSE IF unprocessed_reps < 2 * RepsPerBuf
    THEN << TRUE, FALSE, TRUE >>
    ELSE << FALSE, FALSE, TRUE >>

\* _toggle_trigger: the flag and the card's trigger after the call
_toggle_trigger(want) ==
    IF want = trigger_enabled
    THEN << trigger_enabled, hw_trig >>
    ELSE << want, want >>

\* _process_data_with_trigger_off: where the iteration goes next: wait for a
\* trigger when told to, else process the available repetitions when told to
_process_data_with_trigger_off(wait_trig, data_proc) ==
    IF wait_trig THEN "wait_trig" ELSE IF data_proc THEN "wait_reps" ELSE "top"

\* command_process
command_process(t) ==
    /\ th_pc[t] = "command"
    /\ IF trig_counter = NoValue
       THEN /\ ThDies(t, "TypeError")
            /\ UNCHANGED << data_proc_th, flagvars, hw_trig >>
       ELSE LET unprocessed_reps == trig_counter - avg.num
                d == decide(unprocessed_reps)
                tg == _toggle_trigger(d[1])
            IN  /\ trigger_on' = d[1]
                /\ wait_trigger_on' = d[2]
                /\ data_process_on' = d[3]
                /\ trigger_enabled' = tg[1]
                /\ hw_trig' = tg[2]
                /\ th_pc' = [th_pc EXCEPT ![t] = _process_data_with_trigger_off(d[2], d[3])]
                /\ UNCHANGED << loop_on, fetch_on, data_proc_th, th_k, th_prev, loop_error >>
    /\ UNCHANGED << hw_card_on, hw_dma_on, hw_trigcount, hw_xfer, hw_pos_B, hw_len_B, buf >>
    /\ UNCHANGED << purevars, ctlvars, statvars, datavars, histvars >>
    /\ UNCHANGED calls
    /\ IF trig_counter # NoValue /\ decide(trig_counter - avg.num)[1] # trigger_enabled
       THEN driver_call
       ELSE UNCHANGED faultvars
    /\ UNCHANGED g_pause_num

\* _wait_new_trigger: prev_trig_counts = self.dp.trig_counter
_wait_new_trigger_prev(t) ==
    /\ th_pc[t] = "wait_trig"
    /\ IF trig_counter = NoValue
       THEN th_prev' = [th_prev EXCEPT ![t] = 0 - 1]
       ELSE th_prev' = [th_prev EXCEPT ![t] = trig_counter]
    /\ th_pc' = [th_pc EXCEPT ![t] = "wait_trig_spin"]
    /\ UNCHANGED << data_proc_th, th_k, loop_error >>
    /\ UNCHANGED << purevars, hwvars, ctlvars, flagvars, statvars, datavars, histvars >>
    /\ UNCHANGED calls
    /\ UNCHANGED faultvars
    /\ UNCHANGED g_pause_num

\* _wait_new_trigger: the busy wait ends when the counter has moved
_wait_new_trigger(t) ==
    /\ th_pc[t] = "wait_trig_spin"
    /\ hw_trigcount # th_prev[t]
    /\ trig_counter' = check_card_error(hw_trigcount, ErrCode)
    /\ th_prev' = [th_prev EXCEPT ![t] = 0]
    /\ th_pc' = [th_pc EXCEPT ![t] = IF data_process_on THEN "wait_reps" ELSE "top"]
    /\ UNCHANGED << avail_user_reps, processed_data_B, data_proc_th, th_k, loop_error >>
    /\ UNCHANGED << purevars, hwvars, ctlvars, flagvars, datavars, histvars >>
    /\ UNCHANGED calls
    /\ driver_call
    /\ UNCHANGED g_pause_num

\* a poll for repetitions that goes on with whatever it finds, none included
_wait_new_avail_reps_once(t) ==
    /\ th_pc[t] = "wait_reps"
    /\ avail_user_reps' = get_avail_user_reps_of(hw_len_B)
    /\ th_k' = [th_k EXCEPT ![t] = get_avail_user_reps_of(hw_len_B)]
    /\ th_pc' = [th_pc EXCEPT ![t] = "fetch"]
    /\ UNCHANGED << trig_counter, processed_data_B, data_proc_th, th_prev, loop_error >>
    /\ UNCHANGED << purevars, hwvars, ctlvars, flagvars, datavars, histvars >>
    /\ UNCHANGED calls
    /\ driver_call
    /\ UNCHANGED g_pause_num

\* _wait_new_avail_reps: the busy wait ends when a repetition is available
_wait_new_avail_reps(t) ==
    /\ th_pc[t] = "wait_reps"
    /\ get_avail_user_reps_of(hw_len_B) # 0
    /\ avail_user_reps' = get_avail_user_reps_of(hw_len_B)
    /\ th_k' = [th_k EXCEPT ![t] = get_avail_user_reps_of(hw_len_B)]
    /\ th_pc' = [th_pc EXCEPT ![t] = "fetch"]
    /\ UNCHANGED << trig_counter, processed_data_B, data_proc_th, th_prev, loop_error >>
    /\ UNCHANGED << purevars, hwvars, ctlvars, flagvars, datavars, histvars >>
    /\ UNCHANGED calls
    /\ driver_call
    /\ UNCHANGED g_pause_num

\* a fetch that hands the bytes it read back to the card itself
get_new_data_consuming(curr_avail_reps) ==
    /\ hw_pos_B' = HwReleasePos(curr_avail_reps * seq_size_B)
    /\ hw_len_B' = HwReleaseLen(curr_avail_reps * seq_size_B)
    /\ processed_data_B' = processed_data_B + curr_avail_reps * seq_size_B
    /\ buf' = buf

\* what get_new_data and its helpers write: they cast the buffer pointer, wrap
\* it as an array and append, and assign to no attribute and to no register
get_new_data_writes(curr_avail_reps) ==
    UNCHANGED << hw_pos_B, hw_len_B, processed_data_B, buf >>

\* fetch_data_to_dc, lines 896-897: read the cursor, fetch
fetch_data_to_dc(t) ==
    /\ th_pc[t] = "fetch"
    /\ LET user_pos_B == hw_pos_B
           out == get_new_data(buf, th_k[t], user_pos_B)
       IN  IF out.kind = "data"
           THEN /\ dc_data' = out.np_data
                /\ th_pc' = [th_pc EXCEPT ![t] = "release"]
                /\ g_fetched_B' = g_fetched_B + out.np_data.len_S * DataBytesB
                /\ g_pending_B' = [g_pending_B EXCEPT ![t] = out.np_data.len_S * DataBytesB]
                /\ UNCHANGED << th_k, th_prev, loop_error >>
           ELSE /\ ThDies(t, out.kind)
                /\ UNCHANGED << dc_data, g_fetched_B, g_pending_B >>
    /\ UNCHANGED << dc_rep, avg, avg_data, avg_num, data_proc_th, g_stop_mid >>
    /\ get_new_data_writes(th_k[t])
    /\ UNCHANGED << hw_card_on, hw_dma_on, hw_trig, hw_trigcount, hw_xfer >>
    /\ UNCHANGED << trig_counter, avail_user_reps >>
    /\ UNCHANGED << purevars, ctlvars, flagvars >>
    /\ UNCHANGED calls
    /\ driver_call
    /\ UNCHANGED g_pause_num

\* the byte count fetch_data_to_dc releases
release_len_samples(curr_avail_reps) == curr_avail_reps * SeqSizeS

\* a release of one repetition whatever was fetched
release_len_one_rep(curr_avail_reps) == seq_size_B

release_len_B(curr_avail_reps) == curr_avail_reps * seq_size_B

\* fetch_data_to_dc, lines 898-899, with set_avail_card_len_B
release_skipped(t) ==
    /\ th_pc[t] = "release"
    /\ dc_rep' = th_k[t]
    /\ th_pc' = [th_pc EXCEPT ![t] = "combine"]
    /\ UNCHANGED << hw_pos_B, hw_len_B, processed_data_B, histvars >>
    /\ UNCHANGED << trig_counter, avail_user_reps, dc_data, avg, avg_data, avg_num >>
    /\ UNCHANGED << data_proc_th, th_k, th_prev, loop_error >>
    /\ UNCHANGED << hw_card_on, hw_dma_on, hw_trig, hw_trigcount, hw_xfer, buf >>
    /\ UNCHANGED << purevars, ctlvars, flagvars >>
    /\ UNCHANGED calls
    /\ UNCHANGED faultvars
    /\ UNCHANGED g_pause_num

set_avail_card_len_B(t) ==
    /\ th_pc[t] = "release"
    /\ LET n == release_len_B(th_k[t])
       IN  /\ hw_pos_B' = HwReleasePos(n)
           /\ hw_len_B' = HwReleaseLen(n)
           /\ processed_data_B' = processed_data_B + n
    /\ dc_rep' = th_k[t]
    /\ th_pc' = [th_pc EXCEPT ![t] = "combine"]
    /\ g_pending_B' = [g_pending_B EXCEPT ![t] = 0]
    /\ UNCHANGED << g_fetched_B, g_stop_mid >>
    /\ UNCHANGED << trig_counter, avail_user_reps, dc_data, avg, avg_data, avg_num >>
    /\ UNCHANGED << data_proc_th, th_k, th_prev, loop_error >>
    /\ UNCHANGED << hw_card_on, hw_dma_on, hw_trig, hw_trigcount, hw_xfer, buf >>
    /\ UNCHANGED << purevars, ctlvars, flagvars >>
    /\ UNCHANGED calls
    /\ UNCHANGED faultvars
    /\ UNCHANGED g_pause_num

\* the new samples become self.avg_data: in a new array (in_place FALSE: who
\* holds the old array keeps the old samples) or written into the array that
\* is there (in_place TRUE: who holds it sees the new samples)
publish(data, in_place) ==
    /\ avg_data' = Attr(data)
    /\ ret' = IF in_place THEN ret ELSE [ret EXCEPT !.ref = FALSE]

\* get_new_avg_data and update_avg_data; the new average becomes what
\* fetch_data_trace reads
update_avg_data(t) ==
    /\ th_pc[t] = "combine"
    /\ IF dc_rep > 0 /\ dc_data.len_S = dc_rep * SeqSizeS
       THEN LET new_avg == avgdata(Deref(buf, dc_data), dc_rep)
                res == update(avg, new_avg)
            IN  /\ avg' = res
                /\ \E in_place \in BOOLEAN : publish(res.data, in_place)
                /\ avg_num' = res.num
                /\ th_pc' = [th_pc EXCEPT ![t] = "top"]
                /\ th_k' = [th_k EXCEPT ![t] = 0]
                /\ UNCHANGED << th_prev, loop_error >>
       ELSE \* the samples do not make dc.rep repetitions
            /\ ThDies(t, "ValueError")
            /\ UNCHANGED << avg, avg_data, avg_num, ret >>
    /\ UNCHANGED << dc_data, dc_rep, data_proc_th, internal_status, cpc, loc_data, loc_trig >>
    /\ UNCHANGED << purevars, hwvars, flagvars, statvars, histvars >>
    /\ UNCHANGED calls
    /\ UNCHANGED faultvars
    /\ UNCHANGED g_pause_num

LoopStep(t) ==
    \/ start_data_process_loop(t)
    \/ check_dp_status(t)
    \/ command_process(t)
    \/ _wait_new_trigger_prev(t)
    \/ _wait_new_trigger(t)
    \/ _wait_new_avail_reps(t)
    \/ fetch_data_to_dc(t)
    \/ set_avail_card_len_B(t)
    \/ update_avg_data(t)

\* ------------------------------------------------------------ the controller
FreeSlots == {t \in Threads : th_pc[t] \in {"none", "dead"}}
NewSlot == CHOOSE t \in FreeSlots : \A u \in FreeSlots : t <= u

\* start_data_process: a new thread runs start_data_process_loop
start_data_process ==
    /\ FreeSlots # {}
    /\ th_pc' = [th_pc EXCEPT ![NewSlot] = "top"]
    /\ data_proc_th' = NewSlot
    /\ UNCHANGED << th_k, th_prev, loop_error >>

\* configure: init_process makes new data classes and a new AvgData,
\* configure_all allocates the buffer and defines the transfer
configure_effect ==
    /\ avg' = AvgDataNew
    /\ dc_data' = Copy(<< >>)
    /\ dc_rep' = 0
    /\ buf' = [i \in 1 .. BufLenS |-> 0]
    /\ hw_pos_B' = 0
    /\ hw_len_B' = 0

configure ==
    /\ cpc = "ready"
    /\ configure_effect
    /\ ret' = NoReturn
    /\ UNCHANGED << avg_data, avg_num, internal_status, cpc, loc_data, loc_trig >>
    /\ UNCHANGED << hw_card_on, hw_dma_on, hw_trig, hw_trigcount, hw_xfer >>
    /\ UNCHANGED << purevars, flagvars, statvars, thvars, histvars >>
    /\ driver_call
    /\ UNCHANGED g_pause_num

\* start_measure: configure, _start_card, init_measure_params, start_data_process
start_measure ==
    /\ cpc = "ready"
    /\ internal_status' = "running"
    /\ configure_effect
    /\ hw_card_on' = TRUE /\ hw_trig' = TRUE /\ hw_dma_on' = TRUE
    /\ hw_trigcount' = 0 /\ hw_xfer' = 0
    /\ trigger_enabled' = TRUE
    /\ trig_counter' = NoValue /\ processed_data_B' = 0 /\ avg_num' = 0
    /\ loop_on' = TRUE /\ fetch_on' = FALSE
    /\ start_data_process
    /\ g_fetched_B' = 0 /\ g_stop_mid' = FALSE
    /\ ret' = NoReturn
    /\ UNCHANGED << trigger_on, wait_trigger_on, data_process_on >>
    /\ UNCHANGED << avail_user_reps, avg_data, cpc, loc_data, loc_trig, g_pending_B, purevars >>
    /\ hw_fault' = hw_fault /\ g_err_reported' = (ErrCode # 0)
    /\ g_pause_num' = NoValue

\* stop_measure up to the join of stop_data_process
stop_measure ==
    /\ cpc = "ready"
    /\ loop_on' = FALSE
    /\ ret' = NoReturn
    /\ IF internal_status = "running"
       THEN /\ cpc' = "stop_join"
            /\ UNCHANGED internal_status
       ELSE /\ internal_status' = "idle"
            /\ UNCHANGED cpc
    /\ UNCHANGED << fetch_on, trigger_enabled, trigger_on, wait_trigger_on, data_process_on >>
    /\ g_stop_mid' = (g_stop_mid \/ \E t \in Threads : th_pc[t] = "release")
    /\ UNCHANGED << g_fetched_B, g_pending_B >>
    /\ UNCHANGED << loc_data, loc_trig, purevars, hwvars, statvars, datavars, thvars >>
    /\ UNCHANGED faultvars
    /\ g_pause_num' = NoValue

\* stop_measure from the return of the join
stop_measure_joined ==
    /\ cpc = "stop_join"
    /\ data_proc_th # 0
    /\ th_pc[data_proc_th] = "dead"
    /\ hw_trig' = FALSE /\ hw_dma_on' = FALSE /\ hw_card_on' = FALSE
    /\ internal_status' = "idle"
    /\ loop_on' = FALSE
    /\ cpc' = "ready"
    /\ UNCHANGED << fetch_on, trigger_enabled, trigger_on, wait_trigger_on, data_process_on >>
    /\ UNCHANGED << hw_trigcount, hw_xfer, hw_pos_B, hw_len_B, buf >>
    /\ UNCHANGED << ret, loc_data, loc_trig, purevars, statvars, datavars, thvars, histvars >>
    /\ UNCHANGED calls
    /\ driver_call
    /\ g_pause_num' = NoValue

\* pause_measure up to the join of stop_data_process; before any thread was
\* made self.data_proc_th does not exist and the call ends there
pause_measure ==
    /\ cpc = "ready"
    /\ hw_trig' = FALSE
    /\ loop_on' = FALSE
    /\ IF data_proc_th = 0
       THEN /\ ret' = [NoReturn EXCEPT !.op = "pause_measure", !.kind = "AttributeError"]
            /\ UNCHANGED cpc
       ELSE /\ ret' = NoReturn
            /\ cpc' = "pause_join"
    /\ UNCHANGED << fetch_on, trigger_enabled, trigger_on, wait_trigger_on, data_process_on >>
    /\ UNCHANGED << hw_card_on, hw_dma_on, hw_trigcount, hw_xfer, hw_pos_B, hw_len_B, buf >>
    /\ g_stop_mid' = (g_stop_mid \/ \E t \in Threads : th_pc[t] = "release")
    /\ UNCHANGED << g_fetched_B, g_pending_B >>
    /\ UNCHANGED << internal_status, loc_data, loc_trig, purevars, statvars, datavars, thvars >>
    /\ driver_call
    /\ UNCHANGED g_pause_num

\* pause_measure from the return of the join
pause_measure_joined ==
    /\ cpc = "pause_join"
    /\ th_pc[data_proc_th] = "dead"
    /\ internal_status' = "paused"
    /\ cpc' = "ready"
    /\ UNCHANGED << ret, loc_data, loc_trig, purevars, hwvars, loopvars, histvars >>
    /\ UNCHANGED calls
    /\ UNCHANGED faultvars
    /\ g_pause_num' = avg.num

\* continue_measure
continue_measure_reset ==
    /\ cpc = "ready"
    /\ internal_status' = "running"
    /\ loop_on' = TRUE
    /\ hw_trig' = TRUE
    /\ trigger_enabled' = TRUE
    /\ start_data_process
    /\ ret' = NoReturn
    /\ avg' = AvgDataNew /\ avg_num' = 0
    /\ UNCHANGED << dc_data, dc_rep, avg_data >>
    /\ UNCHANGED << fetch_on, trigger_on, wait_trigger_on, data_process_on >>
    /\ UNCHANGED << hw_card_on, hw_dma_on, hw_trigcount, hw_xfer, hw_pos_B, hw_len_B, buf >>
    /\ UNCHANGED << cpc, loc_data, loc_trig, purevars, statvars, histvars >>
    /\ driver_call
    /\ UNCHANGED g_pause_num

continue_measure ==
    /\ cpc = "ready"
    /\ internal_status' = "running"
    /\ loop_on' = TRUE
    /\ hw_trig' = TRUE
    /\ trigger_enabled' = TRUE
    /\ start_data_process
    /\ ret' = NoReturn
    /\ UNCHANGED << fetch_on, trigger_on, wait_trigger_on, data_process_on >>
    /\ UNCHANGED << hw_card_on, hw_dma_on, hw_trigcount, hw_xfer, hw_pos_B, hw_len_B, buf >>
    /\ UNCHANGED << cpc, loc_data, loc_trig, purevars, statvars, datavars, histvars >>
    /\ driver_call
    /\ UNCHANGED g_pause_num

\* get_data_trace: check_dp_status reads the card, up to the driver call of
\* get_trig_counter (line 200), which fills c_trig_counter
get_data_trace ==
    /\ cpc = "ready"
    /\ avail_user_reps' = get_avail_user_reps_of(hw_len_B)
    /\ loc_trig' = check_card_error(hw_trigcount, ErrCode)
    /\ cpc' = "trace_poll"
    /\ ret' = NoReturn
    /\ UNCHANGED << trig_counter, processed_data_B, internal_status, loc_data >>
    /\ UNCHANGED << purevars, hwvars, flagvars, datavars, thvars, histvars >>
    /\ driver_call
    /\ UNCHANGED g_pause_num

\* get_trig_counter, line 201: self.trig_counter = c_trig_counter.value; then
\* fetch_data_trace sets fetch_on
get_trig_counter_store ==
    /\ cpc = "trace_poll"
    /\ trig_counter' = loc_trig
    /\ loc_trig' = NoValue
    /\ fetch_on' = TRUE
    /\ cpc' = "trace_data"
    /\ UNCHANGED << loop_on, trigger_enabled, trigger_on, wait_trigger_on, data_process_on >>
    /\ UNCHANGED << avail_user_reps, processed_data_B, internal_status, ret, loc_data >>
    /\ UNCHANGED << purevars, hwvars, datavars, thvars, histvars >>
    /\ UNCHANGED calls
    /\ UNCHANGED faultvars
    /\ UNCHANGED g_pause_num

\* fetch_data_trace: avg_data = self.avg_data
fetch_data_trace_data ==
    /\ cpc = "trace_data"
    /\ IF avg_data.set
       THEN /\ loc_data' = avg_data.v
            /\ cpc' = "trace_num"
            /\ ret' = [ret EXCEPT !.ref = TRUE]
       ELSE /\ ret' = [NoReturn EXCEPT !.op = "get_data_trace", !.kind = "AttributeError",
                                       !.num = avg_num]
            /\ cpc' = "ready"
            /\ UNCHANGED loc_data
    /\ UNCHANGED << internal_status, purevars, hwvars, loopvars, histvars >>
    /\ UNCHANGED loc_trig
    /\ UNCHANGED calls
    /\ UNCHANGED faultvars
    /\ UNCHANGED g_pause_num

\* what fetch_data_trace returns for the samples and the count it has read
trace_result(data, num) ==
    [op |-> "get_data_trace", kind |-> "trace", data |-> data, num |-> num,
     now |-> avg_data.v, ref |-> ret.ref]

\* the samples an array read from self.avg_data holds now: those of
\* self.avg_data while it is that object, else those it had when read
held(data) == IF ret.ref THEN avg_data.v ELSE data

\* fetch_data_trace: avg_num = self.avg_num; fetch_on = False; return
fetch_data_trace ==
    /\ cpc = "trace_num"
    /\ ret' = trace_result(held(loc_data), avg_num)
    /\ fetch_on' = FALSE
    /\ loc_data' = << >>
    /\ cpc' = "ready"
    /\ UNCHANGED << loop_on, trigger_enabled, trigger_on, wait_trigger_on, data_process_on >>
    /\ UNCHANGED << internal_status, purevars, hwvars, statvars, datavars, thvars, histvars >>
    /\ UNCHANGED loc_trig
    /\ UNCHANGED calls
    /\ UNCHANGED faultvars
    /\ UNCHANGED g_pause_num

\* ------------------------------------------------------------ specifications
Init == InitMachine /\ GndIdle /\ CmbIdle /\ RpsIdle /\ TsIdle

Card == HwTrigger \/ HwTransfer

Loop == \E t \in Threads : LoopStep(t)

\* a trigger in a run of at most MaxTrigShort triggers
HwTriggerShort == hw_trigcount < MaxTrigShort /\ HwTrigger

\* a call by a caller that keeps to no protocol
Call(A) == calls < MaxCalls /\ calls' = calls + 1 /\ A

\* calls made in any state, in a run of at most MaxTrigShort triggers
NextAny ==
    \/ HwTriggerShort
    \/ HwTransfer
    \/ Loop
    \/ Call(configure)
    \/ Call(start_measure)
    \/ Call(stop_measure)
    \/ stop_measure_joined
    \/ Call(pause_measure)
    \/ pause_measure_joined
    \/ Call(continue_measure)
    \/ Call(get_data_trace)
    \/ get_trig_counter_store
    \/ fetch_data_trace_data
    \/ fetch_data_trace

SpecAny == Init /\ [][NextAny]_vars

\* calls made in the states the interface documents for them
Next ==
    \/ Card
    \/ Loop
    \/ (internal_status = "idle" /\ configure /\ UNCHANGED calls)
    \/ (internal_status = "idle" /\ start_measure /\ UNCHANGED calls)
    \/ (internal_status \in {"running", "paused"} /\ stop_measure /\ UNCHANGED calls)
    \/ stop_measure_joined
    \/ (internal_status = "running" /\ pause_measure /\ UNCHANGED calls)
    \/ pause_measure_joined
    \/ (internal_status = "paused" /\ continue_measure /\ UNCHANGED calls)
    \/ (internal_status \in {"running", "paused"} /\ get_data_trace /\ UNCHANGED calls)
    \/ get_trig_counter_store
    \/ fetch_data_trace_data
    \/ fetch_data_trace

Spec == Init /\ [][Next]_vars

\* ------------------------------------------------------- release and fetch
Alive(t) == th_pc[t] \notin {"none", "dead"}
LoopExited == \A t \in Threads : ~Alive(t)

RECURSIVE SumPending(_)
SumPending(n) == IF n = 0 THEN 0 ELSE g_pending_B[n] + SumPending(n - 1)

Released(n) ==
    /\ hw_len_B' = hw_len_B - n
    /\ hw_pos_B' = (hw_pos_B + n) % buf_size_B
    /\ processed_data_B' = processed_data_B + n

C5_Step(t) ==
    \* a fetch of k repetitions puts the thread in front of its release
    /\ (th_pc[t] # "release" /\ th_pc'[t] = "release")
          => /\ th_pc[t] = "fetch"
             /\ dc_data'.len_S = th_k[t] * SeqSizeS
             /\ th_k'[t] = th_k[t]
    \* the thread leaves that place only by one release of k * seq_size_B
    /\ (th_pc[t] = "release" /\ th_pc'[t] # "release")
          => /\ th_pc'[t] = "combine"
             /\ th_k[t] > 0
             /\ Released(th_k[t] * seq_size_B)
    \* and the next fetch is only reached through the combine
    /\ (th_pc[t] # "fetch" /\ th_pc'[t] = "fetch") => th_pc[t] = "wait_reps"

C6_ConsistentSnapshot ==
    (ret.kind = "trace") => ret.data = ret.now

\* C7: a get_data_trace that finds the repetition count 0 returns the
\* "no data" sentinel.
C7_ZeroStateFetch ==
    (ret.op = "get_data_trace" /\ ret.num = 0) => ret.kind = "no_data"

\* ---------------------------------------------------------------- backpressure
\* the backlog command_process computes
unprocessed == trig_counter - avg.num

\* C8: an iteration whose command_process finds
\* unprocessed_reps >= 2 * reps_per_buf leaves command_process with the
\* trigger flag false and the card's trigger disabled.
C8_BackpressureEngages ==
    [][ \A t \in Threads :
          (/\ th_pc[t] = "command" /\ th_pc'[t] # "command"
           /\ trig_counter # NoValue
           /\ unprocessed >= 2 * RepsPerBuf)
              => (trigger_enabled' = FALSE /\ hw_trig' = FALSE /\ trigger_on' = FALSE)
      ]_vars

\* the loop drains the backlog with the trigger switched off
C8_Witness ==
    \E t \in Threads :
        /\ th_pc[t] = "wait_reps"
        /\ trig_counter # NoValue /\ unprocessed >= 2 * RepsPerBuf
        /\ ~trigger_on /\ ~trigger_enabled /\ ~hw_trig
        /\ hw_card_on /\ loop_on

\* the scheduler runs the loop threads, the card moves recorded data while
\* there is room, and a call that has begun runs to its end; triggers and new
\* calls come when they come
Fairness ==
    /\ \A t \in Threads : SF_vars(LoopStep(t))
    /\ WF_vars(HwTransfer)
    /\ WF_vars(get_trig_counter_store)
    /\ WF_vars(fetch_data_trace_data) /\ WF_vars(fetch_data_trace)
    /\ WF_vars(stop_measure_joined) /\ WF_vars(pause_measure_joined)

LiveSpec == Spec /\ Fairness

\* the loop runs with the trigger switched off by command_process
BackpressureOn == loop_on /\ ~trigger_enabled /\ \E t \in Threads : Alive(t)

\* with the trigger off every combine makes the backlog smaller
C9_Drains ==
    [][ \A t \in Threads :
          (th_pc[t] = "combine" /\ th_pc'[t] # "combine" /\ ~trigger_enabled /\ loop_error' = loop_error)
              => (trig_counter' - avg'.num < trig_counter - avg.num)
      ]_vars

\* the first command_process that finds the backlog under the threshold
\* switches the trigger on again
C9_ReEnables ==
    [][ \A t \in Threads :
          (/\ th_pc[t] = "command" /\ th_pc'[t] # "command"
           /\ ~trigger_enabled
           /\ trig_counter # NoValue
           /\ unprocessed < 2 * RepsPerBuf)
              => (trigger_enabled' = TRUE /\ hw_trig' = TRUE)
      ]_vars

\* C9: once command_process has switched the trigger off and the loop keeps
\* running, every combine makes the backlog smaller, the first iteration that
\* finds unprocessed_reps < 2 * reps_per_buf switches the trigger on again, and
\* the loop does not stay with the trigger off for ever.
C9_BackpressureReleases ==
    /\ C9_Drains
    /\ C9_ReEnables
    /\ (BackpressureOn ~> (trigger_enabled \/ ~loop_on \/ LoopExited))

\* ------------------------------------------------------------- get_status
\* the edges of the documented state machine; no step of the driver reports
\* a hardware error or takes a reset, so the edges into and out of "error"
\* need no step to tell them apart
StatusEdges ==
    { << "unconfigured", "idle" >>, << "idle", "running" >>,
      << "running", "paused" >>, << "paused", "running" >>,
      << "running", "idle" >>, << "paused", "idle" >>,
      << "error", "unconfigured" >> }
        \cup { << s, "error" >> : s \in {"unconfigured", "idle", "running", "paused"} }

\* C10: the status get_status returns changes only along the edges of the
\* state machine; a pause_measure made in a state other than running does not
\* end in paused and a continue_measure made in a state other than paused
\* does not end in running.
C10_StateMachine ==
    [][ /\ (internal_status' # internal_status)
              => << internal_status, internal_status' >> \in StatusEdges
        /\ (pause_measure_joined /\ internal_status # "running")
              => internal_status' # "paused"
        /\ (continue_measure /\ internal_status # "paused")
              => internal_status' # "running"
      ]_vars

\* ---------------------------------------------------------- hardware errors
\* the documented calls, with a card that may start to answer with errors, in
\* a run of at most MaxTrigShort triggers
NextFault ==
    \/ HwTriggerShort
    \/ HwTransfer
    \/ Loop
    \/ (internal_status = "idle" /\ configure /\ UNCHANGED calls)
    \/ (internal_status = "idle" /\ start_measure /\ UNCHANGED calls)
    \/ (internal_status \in {"running", "paused"} /\ stop_measure /\ UNCHANGED calls)
    \/ stop_measure_joined
    \/ (internal_status = "running" /\ pause_measure /\ UNCHANGED calls)
    \/ pause_measure_joined
    \/ (internal_status = "paused" /\ continue_measure /\ UNCHANGED calls)
    \/ (internal_status \in {"running", "paused"} /\ get_data_trace /\ UNCHANGED calls)
    \/ get_trig_counter_store
    \/ fetch_data_trace_data
    \/ fetch_data_trace
    \/ HwFault

SpecFault == Init /\ [][NextFault]_vars

\* get_status
get_status == internal_status

\* a step in which loop thread t makes a driver call
LoopDriverCall(t) ==
    \/ th_pc[t] = "poll" /\ th_pc'[t] = "command"
    \/ th_pc[t] = "command" /\ th_pc'[t] # "command" /\ hw_trig' # hw_trig
    \/ th_pc[t] = "wait_trig_spin" /\ th_pc'[t] # "wait_trig_spin"
    \/ th_pc[t] = "wait_reps" /\ th_pc'[t] = "fetch"
    \/ th_pc[t] = "fetch" /\ th_pc'[t] = "release"
    \/ th_pc[t] = "release" /\ th_pc'[t] = "combine"

\* C11: once a driver call has reported an error, the next step of the
\* loop or of the controller leaves error as the status get_status returns,
\* no loop thread begins another iteration, and no run is started.
C11_HardwareFailureFatal ==
    [][ (g_err_reported /\ << ctlvars, loopvars >>' # << ctlvars, loopvars >>)
          => /\ internal_status' = "error"
             /\ \A t \in Threads : ~(th_pc[t] = "top" /\ th_pc'[t] = "poll")
             /\ \A t \in Threads : ~(th_pc[t] \in {"none", "dead"} /\ th_pc'[t] = "top")
      ]_vars

\* C12: after a driver call has reported an error in a run, no loop thread
\* makes a driver call in that run.
C12_NoRetryAfterError ==
    [][ (g_err_reported /\ g_err_reported')
          => \A t \in Threads : ~LoopDriverCall(t)
      ]_vars

\* --------------------------------------------------------- stop and pause
\* the controller waits in the join of stop_data_process
Joining == cpc \in {"stop_join", "pause_join"}

\* C13: once stop_measure or pause_measure has set loop_on False and waits in
\* the join, the loop thread exits and the join returns, whether or not a new
\* trigger or a new repetition arrives.
C13_CooperativeStopTerminates ==
    Joining ~> (cpc = "ready" /\ LoopExited)

\* the cumulative average and what fetch_data_trace reads of it
average == << avg, avg_data, avg_num >>

PausedState == internal_status = "paused" /\ cpc = "ready"

\* C15: whenever pause_measure has returned and continue_measure has not yet
\* been called, the card's trigger is disabled and no loop thread runs; and
\* continue_measure enables the trigger in the step that starts the loop.
C15_PausedMeansTriggerOff ==
    /\ [](PausedState => (~hw_trig /\ LoopExited))
    /\ [][ (PausedState /\ internal_status' = "running") => hw_trig' ]_vars

\* the threads that execute start_data_process_loop
LoopThreads == {t \in Threads : Alive(t)}

\* C16: whatever start, pause, continue and stop calls are made, at most one
\* thread executes the scheduler loop.
C16_SingleLoopThread ==
    Cardinality(LoopThreads) <= 1

\* ------------------------------------------- AvgData.update on its own inputs
MaxCount == 2

\* per-sample means an average may hold
Means == {<< 1, 1 >>, << 1, 2 >>}

\* spec 8, scenario: the mean [1, 2] after 10 repetitions ...
ExampleAvg == [num |-> 10, data |-> [j \in 1 .. SeqSizeS |-> << j, 1 >>]]

\* ... and 5 new repetitions of [3, 4]
ExampleReps == [i \in 1 .. 5 * SeqSizeS |-> ((i - 1) % SeqSizeS) + 3]

\* what self.avg may be when update is called: a fresh AvgData(), an average
\* of up to MaxCount repetitions (any samples, also with count 0), the example
Averages ==
    {[num |-> n, data |-> d] : n \in 0 .. MaxCount, d \in [1 .. SeqSizeS -> Means]}
        \cup {AvgDataNew, ExampleAvg}

\* what dc may hold: 1 .. MaxCount whole repetitions, or the example's
RepBatches ==
    UNION {[1 .. r * SeqSizeS -> SampleValues] : r \in 1 .. MaxCount}
        \cup {ExampleReps}

\* the batches folded after it
NextBatches ==
    {[num |-> n, data |-> [j \in 1 .. SeqSizeS |-> m]] : n \in 0 .. MaxCount, m \in Means}

InitAvg ==
    /\ cmb_avg \in Averages
    /\ cmb_dc \in RepBatches
    /\ cmb_next \in NextBatches
    /\ cmb_out = CmbPending
    /\ GndIdle
    /\ RpsIdle /\ TsIdle
    /\ InitMachine

\* get_new_avg_data then update_avg_data on the drawn objects; left and right
\* fold cmb_next after them in the two groupings
CallUpdateAvgData ==
    /\ cmb_out = CmbPending
    /\ LET new_avg == avgdata(cmb_dc, Len(cmb_dc) \div SeqSizeS)
           res == update(cmb_avg, new_avg)
       IN  cmb_out' = [kind |-> "update", new_avg |-> new_avg, avg |-> res,
                       left |-> update(res, cmb_next),
                       right |-> update(cmb_avg, update(new_avg, cmb_next)),
                       whole |-> AvgDataNew, split |-> AvgDataNew]
    /\ UNCHANGED << cmb_avg, cmb_dc, cmb_next >>
    /\ UNCHANGED gndvars
    /\ UNCHANGED cfgvars
    /\ UNCHANGED << rpsvars, tsvars >>
    /\ UNCHANGED << hwvars, ctlvars, loopvars, histvars, calls >>
    /\ UNCHANGED faultvars
    /\ UNCHANGED g_pause_num

NextAvg == CallUpdateAvgData

SpecAvg == InitAvg /\ [][NextAvg]_vars

cmb_called == cmb_out.kind = "update"
cmb_rep == Len(cmb_dc) \div SeqSizeS

\* the fraction f times n equals the integer total
TimesIs(f, n, total) == f[1] * n = total * f[2]

\* C17: when the average so far has no repetitions, update returns the new
\* batch's per-sample means and the new batch's repetition count, whatever
\* samples the average held
C17_SeedingReturnsNewBatch ==
    (cmb_called /\ cmb_avg.num = 0)
        => /\ cmb_out.avg.num = cmb_rep
           /\ cmb_out.avg.data = cmb_out.new_avg.data
           /\ \A j \in 1 .. SeqSizeS :
                 TimesIs(cmb_out.avg.data[j], cmb_rep, SumOver(cmb_dc, j, cmb_rep))

\* an average with count 0 that held other samples than the batch's was seeded
C17_Witness ==
    /\ cmb_called /\ cmb_avg.num = 0
    /\ cmb_avg.data # << >> /\ cmb_avg.data # cmb_out.new_avg.data
    /\ cmb_out.avg.num > 0

\* the fraction res times (n + m) equals cur times n plus new times m
WeightedOf(res, cur, n, new, m) ==
    res[1] * (n + m) * cur[2] * new[2]
        = (cur[1] * n * new[2] + new[1] * m * cur[2]) * res[2]

\* the fraction res times (n + m) equals cur times n plus the integer total
SumOf(res, cur, n, m, total) ==
    res[1] * (n + m) * cur[2] = (cur[1] * n + total * cur[2]) * res[2]

\* C18: for an average of n > 0 repetitions and a batch of m > 0, update
\* returns per sample (current*n + new*m)/(n+m) with count n+m, so that the
\* result times (n+m) is the sum of what was folded; the mean [1, 2] after 10
\* repetitions with 5 repetitions of [3, 4] gives [25/15, 40/15] and count 15
C18_WeightedCombine ==
    /\ (cmb_called /\ cmb_avg.num > 0 /\ cmb_rep > 0)
          => /\ cmb_out.avg.num = cmb_avg.num + cmb_rep
             /\ \A j \in 1 .. SeqSizeS :
                   /\ WeightedOf(cmb_out.avg.data[j], cmb_avg.data[j], cmb_avg.num,
                                 cmb_out.new_avg.data[j], cmb_rep)
                   /\ SumOf(cmb_out.avg.data[j], cmb_avg.data[j], cmb_avg.num,
                            cmb_rep, SumOver(cmb_dc, j, cmb_rep))
    /\ (cmb_called /\ cmb_avg = ExampleAvg /\ cmb_dc = ExampleReps)
          => /\ cmb_out.avg.num = 15
             /\ \A j \in 1 .. SeqSizeS :
                   cmb_out.avg.data[j][1] * 15 = (10 * j + 5 * (j + 2)) * cmb_out.avg.data[j][2]

\* the scenario of spec 8 was combined
C18_Witness ==
    /\ cmb_called /\ cmb_avg = ExampleAvg /\ cmb_dc = ExampleReps
    /\ cmb_out.avg.num = 15
    /\ cmb_out.avg.data[1] = << 5, 3 >>

\* C19: folding three batches A, B, C as update(update(A, B), C) and as
\* update(A, update(B, C)) gives the same repetition count and the same
\* per-sample means, exactly over the rationals
C19_Associative ==
    cmb_called
        => /\ cmb_out.left.num = cmb_out.right.num
           /\ cmb_out.left.data = cmb_out.right.data
           /\ cmb_out.left.num = cmb_avg.num + cmb_rep + cmb_next.num

\* three batches with repetitions each and pairwise different means were
\* folded in both groupings
C19_Witness ==
    /\ cmb_called
    /\ cmb_avg.num > 0 /\ cmb_rep > 1 /\ cmb_next.num > 0
    /\ cmb_avg.num # cmb_rep /\ cmb_rep # cmb_next.num
    /\ cmb_avg.data # cmb_out.new_avg.data
    /\ cmb_out.new_avg.data # cmb_next.data
    /\ cmb_avg.data # cmb_next.data
    /\ cmb_out.left.data # cmb_out.avg.data
    /\ cmb_out.left = cmb_out.right

\* ------------------------------- a fetch folded into the average, on its own
InitFold ==
    /\ gnd_buf \in Buffers
    /\ gnd_pos_B \in Positions
    /\ gnd_reps \in 0 .. (2 * RepsPerBuf + 1)
    /\ gnd_out = Pending
    /\ cmb_avg \in Averages
    /\ cmb_dc = << >> /\ cmb_next = AvgDataNew
    /\ cmb_out = CmbPending
    /\ RpsIdle /\ TsIdle
    /\ InitMachine

\* the repetitions one read of the buffer holds
reps_of(rd) == rd.len_S \div SeqSizeS

\* get_new_avg_data and update_avg_data on what get_new_data returned (whole),
\* and on each read of the fetch in turn (split)
FoldFetched ==
    /\ gnd_out.kind = "data"
    /\ cmb_out = CmbPending
    /\ LET new_avg == avgdata(Deref(gnd_buf, gnd_out.np_data), gnd_reps)
           rd == gnd_out.reads
           first == update(cmb_avg, avgdata(Deref(gnd_buf, rd[1]), reps_of(rd[1])))
       IN  /\ cmb_dc' = Deref(gnd_buf, gnd_out.np_data)
           /\ cmb_out' = [kind |-> "fold", new_avg |-> new_avg, avg |-> first,
                          left |-> AvgDataNew, right |-> AvgDataNew,
                          whole |-> update(cmb_avg, new_avg),
                          split |-> IF Len(rd) = 2
                                    THEN update(first, avgdata(Deref(gnd_buf, rd[2]),
                                                               reps_of(rd[2])))
                                    ELSE first]
    /\ UNCHANGED << cmb_avg, cmb_next >>
    /\ UNCHANGED gndvars
    /\ UNCHANGED cfgvars
    /\ UNCHANGED << rpsvars, tsvars >>
    /\ UNCHANGED << hwvars, ctlvars, loopvars, histvars, calls >>
    /\ UNCHANGED faultvars
    /\ UNCHANGED g_pause_num

NextFold == CallGetNewData \/ FoldFetched

SpecFold == InitFold /\ [][NextFold]_vars

fold_wrapped == cmb_out.kind = "fold" /\ Len(gnd_out.reads) = 2

\* C20: folding the tail sub-batch and then the head sub-batch of a wrapped
\* fetch into the average gives the same means and the same repetition count
\* as folding the k fetched repetitions as one batch
C20_SplitInvariance ==
    fold_wrapped
        => /\ cmb_out.split.num = cmb_out.whole.num
           /\ cmb_out.split.data = cmb_out.whole.data
           /\ cmb_out.whole.num = cmb_avg.num + gnd_reps

\* a wrapped fetch whose tail and head have different means was folded into
\* an average that had repetitions
C20_Witness ==
    /\ fold_wrapped /\ gnd_reps <= RepsPerBuf
    /\ cmb_avg.num > 0
    /\ cmb_out.avg.data # cmb_out.whole.data
    /\ cmb_out.new_avg.data # cmb_avg.data
    /\ avgdata(Deref(gnd_buf, gnd_out.reads[1]), reps_of(gnd_out.reads[1])).data
          # avgdata(Deref(gnd_buf, gnd_out.reads[2]), reps_of(gnd_out.reads[2])).data
    /\ cmb_out.split = cmb_out.whole

\* ------------------------------------------------------------ the read cursor
\* SPC_DATA_AVAIL_USER_POS, which fetch_data_to_dc reads before every fetch
read_cursor_B == hw_pos_B

\* the loop thread t fetches in this step / releases in this step
Fetches(t) == th_pc[t] = "fetch" /\ th_pc'[t] = "release"
Releases(t) == th_pc[t] = "release" /\ th_pc'[t] = "combine"

TraceStep ==
    \/ (cpc = "ready" /\ cpc' = "trace_poll")
    \/ (cpc \in {"trace_poll", "trace_data", "trace_num"} /\ cpc' # cpc)

\* what the loop owns: the average and its count, the read cursor, the
\* released-byte total, and the status fields command_process decides on
loop_owned ==
    << avg, avg_data, avg_num, read_cursor_B, processed_data_B,
       trig_counter, avail_user_reps >>

\* C22: no step of a get_data_trace call changes the cumulative average, the
\* repetition count, the read cursor, the released-byte total, the trigger
\* count or the available repetitions, whatever the loop does in between
C22_FetchTraceReadOnly ==
    [][ TraceStep => loop_owned' = loop_owned ]_vars

\* the samples of the trace the last get_data_trace returned, as its caller
\* sees them now
returned_trace == held(ret.data)

\* C23: the samples a get_data_trace call has returned stay what they were
\* when returned, whatever the loop combines afterwards
C23_SnapshotIsolation ==
    [][ (ret.kind = "trace" /\ ret'.kind = "trace") => returned_trace' = returned_trace ]_vars

\* ------------------------------------------------------------------ configure
MaxBinwidth == 5
MaxLength == 6
InitBufSizeS == 4

\* get_constraints: the first entries of possible_timebase_list
possible_timebase_list == {1, 2, 4, 5, 6, 7, 8, 9, 10, 20}

\* hardware_binwidth_list, in units of 1 / 250 MHz
hardware_binwidth_list == possible_timebase_list

Dist(a, b) == Abs(a - b)

\* the legal timebase nearest to the requested bin width
resolve_timebase(binwidth_s) ==
    CHOOSE t \in possible_timebase_list :
        \A u \in possible_timebase_list : Dist(t, binwidth_s) <= Dist(u, binwidth_s)

\* samples of one segment: the record length in bins, rounded up
seg_size_of(record_length_s, binwidth) ==
    (record_length_s + binwidth - 1) \div binwidth

\* ms.calc_buf_params: the whole repetitions the initial buffer holds
calc_buf_params(seq_size_S) == InitBufSizeS \div seq_size_S

\* a buffer of the initial size whatever the segment size is
get_buf_size_B_initial(size_B, reps_per_buf) == InitBufSizeS * DataBytesB

\* cs.get_buf_size_B(seq_size_B, reps_per_buf)
get_buf_size_B(size_B, reps_per_buf) == size_B * reps_per_buf

\* configure(binwidth_s, record_length_s), lines 392-411, in the order of the
\* code: cfg takes its copy of the sample rate (load_static_cfg_params) before
\* calc_dynamic_cs computes the new one
configure_settings(binwidth_s, record_length_s) ==
    LET static_clk == cs.clk_timebase
        binwidth == resolve_timebase(binwidth_s)
        seg == seg_size_of(record_length_s, binwidth)
        reps == calc_buf_params(seg)
        buf_B == get_buf_size_B(seg * DataBytesB, reps)
    IN  IF reps = 0
        THEN \* calc_buf_params raises: the lines after it are not reached
             /\ ms' = [ms EXCEPT !.binwidth = binwidth, !.seq_size_S = seg,
                                 !.actual_length = seg * binwidth]
             /\ cs' = [cs EXCEPT !.clk_timebase = binwidth, !.acq_seg_size_S = seg]
             /\ cfg' = [cfg EXCEPT !.clk_timebase = static_clk]
             /\ cfg_out' = [kind |-> "ConfigurationError",
                            req_binwidth |-> binwidth_s, req_length |-> record_length_s,
                            binwidth |-> NoValue, length |-> NoValue]
             /\ UNCHANGED hw_regs
        ELSE /\ ms' = [binwidth |-> binwidth, actual_length |-> seg * binwidth,
                       seq_size_S |-> seg, reps_per_buf |-> reps]
             /\ cs' = [clk_timebase |-> binwidth, acq_seg_size_S |-> seg,
                       buf_size_B |-> buf_B]
             /\ cfg' = [clk_timebase |-> static_clk, acq_seg_size_S |-> seg,
                        buf_size_B |-> buf_B]
             /\ hw_regs' = [clk_timebase |-> static_clk, acq_seg_size_S |-> seg,
                            buf_size_B |-> buf_B]
             /\ cfg_out' = [kind |-> "ok",
                            req_binwidth |-> binwidth_s, req_length |-> record_length_s,
                            binwidth |-> binwidth, length |-> seg * binwidth]

\* a configure call from idle with its own arguments
CallConfigure(binwidth_s, record_length_s) ==
    /\ cpc = "ready" /\ internal_status = "idle"
    /\ configure_settings(binwidth_s, record_length_s)
    /\ IF calc_buf_params(seg_size_of(record_length_s, resolve_timebase(binwidth_s))) = 0
       THEN UNCHANGED << avg, dc_data, dc_rep, buf, hw_pos_B, hw_len_B >>
       ELSE configure_effect
    /\ ret' = NoReturn
    /\ UNCHANGED << avg_data, avg_num, internal_status, cpc, loc_data, loc_trig >>
    /\ UNCHANGED << hw_card_on, hw_dma_on, hw_trig, hw_trigcount, hw_xfer >>
    /\ UNCHANGED << gndvars, cmbvars, rpsvars, tsvars >>
    /\ UNCHANGED << flagvars, statvars, thvars, histvars >>
    /\ UNCHANGED calls
    /\ driver_call
    /\ UNCHANGED g_pause_num

NextCfg ==
    \E b \in 1 .. MaxBinwidth, l \in 1 .. MaxLength : CallConfigure(b, l)

SpecCfg == Init /\ [][NextCfg]_vars

\* C24: the bin width configure returns is the one the card was set to, and
\* is the member of hardware_binwidth_list nearest to the request; the record
\* length it returns is the one the card was set to
C24_ConfigureReportsAchieved ==
    (cfg_out.kind = "ok")
        => /\ cfg_out.binwidth = hw_regs.clk_timebase
           /\ cfg_out.binwidth \in hardware_binwidth_list
           /\ \A u \in hardware_binwidth_list :
                 Dist(cfg_out.binwidth, cfg_out.req_binwidth) <= Dist(u, cfg_out.req_binwidth)
           /\ cfg_out.length = hw_regs.acq_seg_size_S * hw_regs.clk_timebase

\* the segment size the last request asks for, and whether some whole number
\* of such segments fits the initial buffer
requested_seg_size == seg_size_of(cfg_out.req_length, resolve_timebase(cfg_out.req_binwidth))
geometry_exists == \E r \in 1 .. InitBufSizeS : r * requested_seg_size <= InitBufSizeS

\* C25: after a successful configure reps_per_buf is a positive integer and
\* the buffer size in bytes is reps_per_buf * seq_size_S * data_bytes_B, on
\* the settings and on the card; a request that no geometry satisfies ends in
\* ConfigurationError and leaves the card and the buffer size as they were
C25_BufferGeometry ==
    /\ [](/\ (cfg_out.kind = "ok")
                => /\ ms.reps_per_buf >= 1
                   /\ cs.buf_size_B = ms.reps_per_buf * ms.seq_size_S * DataBytesB
                   /\ hw_regs.buf_size_B = cs.buf_size_B
                   /\ hw_regs.acq_seg_size_S = ms.seq_size_S
          /\ (cfg_out.kind # "pending" /\ ~geometry_exists)
                => cfg_out.kind = "ConfigurationError")
    /\ [][ (cfg_out'.kind = "ConfigurationError")
              => (hw_regs' = hw_regs /\ cs'.buf_size_B = cs.buf_size_B) ]_vars

\* a request without a geometry has failed after one whose segments do not
\* divide the initial buffer had succeeded
C25_Witness ==
    /\ cfg_out.kind = "ConfigurationError"
    /\ ~geometry_exists
    /\ hw_regs.buf_size_B > 0
    /\ InitBufSizeS % hw_regs.acq_seg_size_S # 0
    /\ hw_regs.buf_size_B < InitBufSizeS * DataBytesB

\* ------------------------------------------------- branches of the scheduler
\* the loop thread t runs command_process in this step and finds this backlog
Commands(t) == th_pc[t] = "command" /\ th_pc'[t] # "command" /\ trig_counter # NoValue

\* the thread t is in an iteration that found no backlog
Idling(t) == th_pc[t] \in {"wait_trig", "wait_trig_spin"}

\* what a fetch, a combine or a release changes
processing == << dc_data, dc_rep, avg, avg_data, avg_num, processed_data_B,
                 read_cursor_B, hw_len_B >>

\* C26: an iteration whose command_process finds unprocessed_reps = 0 leaves
\* it with the trigger enabled (flag and card) and goes to wait for a
\* trigger; it performs no fetch, combine or release and re-polls from the
\* top of the loop
C26_IdleBranch ==
    [][ \A t \in Threads :
          /\ (Commands(t) /\ unprocessed = 0)
                => /\ trigger_enabled' /\ hw_trig'
                   /\ th_pc'[t] = "wait_trig"
                   /\ processing' = processing
          /\ (Idling(t) /\ th_pc'[t] # th_pc[t])
                => /\ th_pc'[t] \in {"wait_trig_spin", "top"}
                   /\ processing' = processing
      ]_vars

\* the loop thread t folds its batch into the average in this step
Combines(t) == th_pc[t] = "combine" /\ th_pc'[t] = "top" /\ avg'.num > avg.num

\* C27: an iteration whose command_process finds
\* 0 < unprocessed_reps < 2 * reps_per_buf goes on to process with the
\* trigger enabled; it fetches the available repetitions, combines them into
\* the average while their bytes are still held (fetched and not yet
\* released), and only then releases them, which ends the iteration
C27_ProcessingBranch ==
    [][ \A t \in Threads :
          /\ (Commands(t) /\ 0 < unprocessed /\ unprocessed < 2 * RepsPerBuf)
                => (trigger_enabled' /\ th_pc'[t] = "wait_reps")
          /\ Fetches(t) => dc_data'.len_S = th_k[t] * SeqSizeS
          /\ Combines(t)
                => g_pending_B[t] = (avg'.num - avg.num) * seq_size_B
          /\ Releases(t) => avg.num * seq_size_B = processed_data_B'
      ]_vars

\* C28: the ring-buffer fetch is a pure read. The step in which the loop calls
\* get_new_data changes neither the read cursor, nor the released-byte total,
\* nor the bytes the card reports available, nor the buffer contents, whether
\* the batch is contiguous (a view) or wraps around the buffer end (a copy)
C28_FetchIsPureRead ==
    [][ \A t \in Threads :
          Fetches(t) => /\ read_cursor_B' = read_cursor_B
                        /\ processed_data_B' = processed_data_B
                        /\ hw_len_B' = hw_len_B
                        /\ buf' = buf ]_vars

\* a wrapped batch has been fetched and not yet released: the cursor is where
\* it was read, behind the start of the buffer, and the data is still counted
\* available
C28_Witness ==
    \E t \in Threads :
        /\ th_pc[t] = "release"
        /\ ~dc_data.view
        /\ dc_data.len_S = th_k[t] * SeqSizeS
        /\ read_cursor_B # 0
        /\ read_cursor_B + th_k[t] * seq_size_B > buf_size_B
        /\ hw_len_B >= th_k[t] * seq_size_B
        /\ g_pending_B[t] = th_k[t] * seq_size_B

\* ------------------------------------- get_avail_user_reps on its own inputs
MaxSegS == 4
MaxAvailB == 16

\* the bytes of a segment of 1 .. MaxSegS samples
SegSizesB == {n * DataBytesB : n \in 1 .. MaxSegS}

InitReps ==
    /\ rps_len_B \in 0 .. MaxAvailB
    /\ rps_size_B \in SegSizesB
    /\ rps_out = NoValue
    /\ GndIdle /\ CmbIdle /\ TsIdle
    /\ InitMachine

\* get_avail_user_len_B answers rps_len_B; get_avail_user_reps divides
CallGetAvailUserReps ==
    /\ rps_out = NoValue
    /\ rps_out' = avail_reps(rps_len_B, rps_size_B)
    /\ UNCHANGED << rps_len_B, rps_size_B >>
    /\ UNCHANGED << gndvars, cmbvars, cfgvars, tsvars >>
    /\ UNCHANGED << hwvars, ctlvars, loopvars, histvars, calls >>
    /\ UNCHANGED faultvars
    /\ UNCHANGED g_pause_num

NextReps == CallGetAvailUserReps

SpecReps == InitReps /\ [][NextReps]_vars

rps_called == rps_out # NoValue

MaxTs == 2

Timestamps == 0 .. MaxTs
TsBuffers == [1 .. TsLenS -> Timestamps]
TsPositions == {r * ts_seq_size : r \in 0 .. (RepsPerBuf - 1)}

InitGated ==
    /\ ts_buf \in TsBuffers
    /\ ts_pos_S \in TsPositions
    /\ ts_reps \in 1 .. RepsPerBuf
    /\ ts_out = TsPending
    /\ GndIdle /\ CmbIdle /\ RpsIdle
    /\ InitMachine

\* a call binds when it passes as many arguments as the method has parameters
\* without a default
call_binds(args, params) == Cardinality(args) = Cardinality(params)

\* def fetch_data_to_dc(self, curr_avail_reps, dc) of Data_fetch_ungated,
\* and the arguments of super().fetch_data_to_dc()
fetch_data_to_dc_params == {"curr_avail_reps", "dc"}
super_fetch_data_to_dc_args == {}

\* ts_dt.get_new_data(curr_avail_reps, ts_user_pos_B): the timestamps of
\* curr_avail_reps repetitions from the cursor on, around the buffer end
ts_row_of(b, curr_avail_reps, pos_S) ==
    [i \in 1 .. (curr_avail_reps * ts_seq_size) |-> b[((pos_S + i - 1) % TsLenS) + 1]]

\* ts_row[::2] and ts_row[1::2]
ts_rising(ts_row) == [i \in 1 .. (Len(ts_row) \div 2) |-> ts_row[2 * i - 1]]
ts_falling(ts_row) == [i \in 1 .. (Len(ts_row) \div 2) |-> ts_row[2 * i]]

\* Data_fetch_gated.fetch_data_to_dc: the call of the inherited method comes
\* first; when it does not bind, the TypeError leaves the method before a
\* timestamp is read
CallFetchGated ==
    /\ ts_out = TsPending
    /\ IF call_binds(super_fetch_data_to_dc_args, fetch_data_to_dc_params)
       THEN LET ts_row == ts_row_of(ts_buf, ts_reps, ts_pos_S)
            IN  ts_out' = [kind |-> "data", ts_r |-> ts_rising(ts_row),
                           ts_f |-> ts_falling(ts_row)]
       ELSE ts_out' = [kind |-> "TypeError", ts_r |-> << >>, ts_f |-> << >>]
    /\ UNCHANGED << ts_buf, ts_pos_S, ts_reps >>
    /\ UNCHANGED << gndvars, cmbvars, cfgvars, rpsvars >>
    /\ UNCHANGED << hwvars, ctlvars, loopvars, histvars, calls >>
    /\ UNCHANGED faultvars
    /\ UNCHANGED g_pause_num

NextGated == CallFetchGated

SpecGated == InitGated /\ [][NextGated]_vars

ts_called == ts_out # TsPending

\* C30: gated timestamps pass through unaveraged. A gated fetch of k
\* repetitions yields k rising and k falling timestamps, the i-th rising and
\* the i-th falling (i from 0) being entries 2i and 2i+1 of the timestamp ring
\* buffer read at the timestamp cursor, stored as read
C30_TimestampsPassThrough ==
    ts_called
        => /\ ts_out.kind = "data"
           /\ Len(ts_out.ts_r) = ts_reps /\ Len(ts_out.ts_f) = ts_reps
           /\ \A i \in 0 .. (ts_reps - 1) :
                 /\ ts_out.ts_r[i + 1] = ts_buf[((ts_pos_S + 2 * i) % TsLenS) + 1]
                 /\ ts_out.ts_f[i + 1] = ts_buf[((ts_pos_S + 2 * i + 1) % TsLenS) + 1]

\* ------------------------------------------------------------- the backlog
\* the loop stands before the decision of command_process
Decides(t) == th_pc[t] = "command"

\* C31: the backlog is never negative. Whenever the loop evaluates its
\* decision, the repetitions processed (avg.num) do not exceed the trigger
\* count the decision uses, also when the controller refreshes the shared
\* trig_counter field in between
C31_BacklogNeverNegative ==
    \A t \in Threads :
        Decides(t) => /\ trig_counter # NoValue
                      /\ avg.num <= trig_counter

\* ------------------------------------------- repetitions and released bytes
\* a measurement has been started and not stopped
InRun == internal_status \in {"running", "paused"}

\* no loop thread is inside an iteration: each is at the top of the loop, about
\* to poll, has exited, or was never made
BetweenIterations == \A t \in Threads : th_pc[t] \in {"none", "dead", "top", "poll"}

last_trigger_command == hw_trig

\* C33: the tracked trigger flag mirrors the hardware. After any sequence of
\* start, loop iterations, pause, continue and stop the loop's trigger_enabled
\* flag equals the state set by the last trigger command sent to the card, and
\* _toggle_trigger sends a command only when the requested state differs from
\* the flag
C33_FlagMirrorsHardware ==
    /\ [](trigger_enabled = last_trigger_command)
    /\ [][ \A t \in Threads :
             (Commands(t) /\ trigger_on' = trigger_enabled)
                 => last_trigger_command' = last_trigger_command ]_vars

\* ------------------------------------------------- the byte ranges of a fetch
\* the bytes [from, to) a read of the buffer covers
from_B(rd) == rd.pos_B
to_B(rd) == rd.pos_B + rd.len_S * DataBytesB

HwInBounds == hw_len_B <= buf_size_B /\ 0 <= hw_pos_B /\ hw_pos_B < buf_size_B

\* the loop thread t is about to fetch th_k[t] repetitions at the card's cursor
IssuesFetch(t) == th_pc[t] = "fetch"

start_measure_configured ==
    /\ cpc = "ready"
    /\ cfg_out.kind # "pending"
    /\ internal_status' = "running"
    /\ configure_settings(ms.binwidth, ms.actual_length)
    /\ IF cfg_out'.kind = "ConfigurationError"
       THEN /\ ret' = [NoReturn EXCEPT !.op = "start_measure", !.kind = "ConfigurationError"]
            /\ UNCHANGED << hwvars, loopvars, histvars, faultvars, g_pause_num >>
       ELSE /\ configure_effect
            /\ hw_card_on' = TRUE /\ hw_trig' = TRUE /\ hw_dma_on' = TRUE
            /\ hw_trigcount' = 0 /\ hw_xfer' = 0
            /\ trigger_enabled' = TRUE
            /\ trig_counter' = NoValue /\ processed_data_B' = 0 /\ avg_num' = 0
            /\ loop_on' = TRUE /\ fetch_on' = FALSE
            /\ start_data_process
            /\ g_fetched_B' = 0 /\ g_stop_mid' = FALSE
            /\ ret' = NoReturn
            /\ UNCHANGED << trigger_on, wait_trigger_on, data_process_on >>
            /\ UNCHANGED << avail_user_reps, avg_data, g_pending_B >>
            /\ hw_fault' = hw_fault /\ g_err_reported' = (ErrCode # 0)
            /\ g_pause_num' = NoValue
    /\ UNCHANGED << cpc, loc_data, loc_trig >>
    /\ UNCHANGED << gndvars, cmbvars, rpsvars, tsvars >>
    /\ UNCHANGED calls

\* configure calls from idle, then a start
NextStart ==
    \/ NextCfg
    \/ (internal_status = "idle" /\ start_measure_configured)

SpecStart == Init /\ [][NextStart]_vars

\* C36: a running status implies a live loop. Whenever get_status returns
\* running and no controller call is in progress, the card has been started
\* and exactly one loop thread is alive; a start_measure whose configure step
\* fails does not leave the status at running
C36_RunningImpliesLiveLoop ==
    (get_status = "running" /\ cpc = "ready")
        => /\ hw_card_on
           /\ Cardinality(LoopThreads) = 1
           /\ ret.kind # "ConfigurationError"

\* ------------------------------------------------------ stop_measure returns
\* stop_measure returns in this step: from the join when it was called while
\* running, at once when it was called while paused
StopReturns ==
    \/ (cpc = "stop_join" /\ cpc' = "ready")
    \/ (cpc = "ready" /\ internal_status = "paused" /\ internal_status' = "idle")

\* C37: stop quiesces the hardware from every state. When stop_measure
\* returns, whether it was called while running or while paused, the status is
\* idle, no loop thread is alive, the trigger is disabled, DMA is stopped and
\* the card is stopped
C37_StopQuiesces ==
    [][ StopReturns => /\ internal_status' = "idle"
                       /\ LoopExited'
                       /\ ~hw_trig'
                       /\ ~hw_dma_on'
                       /\ ~hw_card_on' ]_vars

====
